---- MODULE Spec2Model ----
(***************************************************************************)
(* GeminiAIApp: the document ingestion service (IntegrationService), the   *)
(* conversation service (ChatService) and the model client with retries    *)
(* (AIModelService), as state machines over the upload directory and the   *)
(* two tables of the SQLite store.                                          *)
(*                                                                          *)
(* Text is a sequence of one-character strings.  A request is a task in a  *)
(* slot of Procs; a task advances by one action per stretch of code        *)
(* between two suspension points (await) of its coroutine.                  *)
(***************************************************************************)
EXTENDS Integers, Sequences, FiniteSets, TLC

\* ------------------------------------------------------------------ bounds
\* Requests made in one behaviour; they may all be in flight at once.
MaxRequests == 3
\* Largest document id a client asks for.
MaxId == 2

\* ------------------------------------------------------------- configuration
MAX_FILE_SIZE_MB == 20
BytesPerMB == 1048576
RETRY_ATTEMPTS == 3
TIMEOUT_SECONDS == 10

\* ----------------------------------------------------------------------- text
\* The characters re's \s and str.strip() treat as whitespace (those in use).
Whitespace == {" ", "\t", "\n"}

Letters ==
  {"a","b","c","d","e","f","g","h","i","j","k","l","m","n","o","p","q","r","s",
   "t","u","v","w","x","y","z","A","B","C","D","E","F","G","H","I","J","K","L",
   "M","N","O","P","Q","R","S","T","U","V","W","X","Y","Z"}

Digits == {"0","1","2","3","4","5","6","7","8","9"}

\* The class [a-zA-Z0-9\s,.?!] whose complement _preprocess_text deletes.
KeptChars == Letters \cup Digits \cup Whitespace \cup {",", ".", "?", "!"}

RECURSIVE lstrip(_)
lstrip(s) ==
  IF s # <<>> /\ Head(s) \in Whitespace THEN lstrip(Tail(s)) ELSE s

RECURSIVE rstrip(_)
rstrip(s) ==
  IF s # <<>> /\ s[Len(s)] \in Whitespace
  THEN rstrip(SubSeq(s, 1, Len(s) - 1)) ELSE s

\* str.strip()
strip(s) == rstrip(lstrip(s))

\* re.sub(r"\s+", " ", text)
RECURSIVE collapse_whitespace(_)
collapse_whitespace(s) ==
  IF s = <<>> THEN <<>>
  ELSE IF Head(s) \in Whitespace
       THEN <<" ">> \o collapse_whitespace(lstrip(Tail(s)))
       ELSE <<Head(s)>> \o collapse_whitespace(Tail(s))

\* re.sub(r"[^a-zA-Z0-9\s,.?!]", "", text)
IsKept(c) == c \in KeptChars
remove_disallowed(s) == SelectSeq(s, IsKept)

preprocess_text_unstripped(text) == remove_disallowed(collapse_whitespace(text))

\* A variant that leaves runs of whitespace as they are.
preprocess_text_without_collapse(text) == strip(remove_disallowed(text))

\* IntegrationService._preprocess_text
preprocess_text(text) == strip(remove_disallowed(collapse_whitespace(text)))

\* " ".join(parts)
RECURSIVE join_space(_)
join_space(parts) ==
  IF parts = <<>> THEN <<>>
  ELSE IF Len(parts) = 1 THEN parts[1]
       ELSE parts[1] \o <<" ">> \o join_space(Tail(parts))

\* filter(None, page_texts): drops the pages whose extract_text() is None or "".
IsText(t) == t # <<>>

\* A variant that counts only the pages that gave text.
sync_extract_text_counting_text_pages(pages) ==
  LET content == join_space(SelectSeq(pages, IsText))
  IN IF strip(content) = <<>>
     THEN [ok |-> FALSE, content |-> <<>>, page_count |-> 0]
     ELSE [ok |-> TRUE, content |-> content, page_count |-> Len(SelectSeq(pages, IsText))]

\* IntegrationService._sync_extract_text on the pages of an opened PDF.  A page
\* is the text extract_text() gives for it, <<>> standing for None and "".
sync_extract_text(pages) ==
  LET content == join_space(SelectSeq(pages, IsText))
  IN IF strip(content) = <<>>
     THEN [ok |-> FALSE, content |-> <<>>, page_count |-> 0]
     ELSE [ok |-> TRUE, content |-> content, page_count |-> Len(pages)]

\* ------------------------------------------------------------------ file names
\* A name in the upload directory or in a record: gen tells a uuid4().hex stem
\* (the n-th one generated) from a stem the client chose; uuid4 stems are taken
\* never to equal one another or a client's stem.
ClientName(n, ext) == [gen |-> FALSE, stem |-> n, ext |-> ext]
NoName == [gen |-> FALSE, stem |-> 0, ext |-> ""]

\* IntegrationService._generate_unique_filename: the n-th uuid, the original
\* extension kept as written.
generate_unique_filename(n, original) == [gen |-> TRUE, stem |-> n, ext |-> original.ext]

\* ------------------------------------------------------------------- uploads
SmallSize == 1000
Upload(name, pages, size) == [filename |-> name, pages |-> pages, size |-> size]

\* One page with text.
UpHello == Upload(ClientName(1, ".pdf"), << <<"H","i"," "," ","y","o","u","!">> >>, SmallSize)
\* A text page and a page with no text, size exactly the maximum.
UpTwoPages == Upload(ClientName(2, ".pdf"), << <<"O","k">>, <<>> >>, MAX_FILE_SIZE_MB * BytesPerMB)
\* Only an image: no page yields text.
UpScanned == Upload(ClientName(3, ".pdf"), << <<>> >>, SmallSize)
\* Text that normalizes to nothing.
UpSymbols == Upload(ClientName(4, ".pdf"), << <<"#">>, <<"#">> >>, SmallSize)
\* Wrong extension.
UpTxt == Upload(ClientName(5, ".txt"), << <<"O","k">> >>, SmallSize)
\* One byte over the maximum.
UpBig == Upload(ClientName(6, ".pdf"), << <<"O","k">> >>, MAX_FILE_SIZE_MB * BytesPerMB + 1)

\* The files the clients of the service send.
Uploads == {UpHello, UpTwoPages, UpScanned, UpSymbols, UpTxt, UpBig}

NoUpload == Upload(NoName, <<>>, 0)

\* os.path.splitext(filename)[1].lower()
lower_ext(ext) == IF ext = ".PDF" THEN ".pdf" ELSE ext

ALLOWED_EXTENSIONS == {".pdf"}

\* A variant that also refuses a file of exactly the maximum size.
validate_file_below_maximum(file) ==
  /\ lower_ext(file.filename.ext) \in ALLOWED_EXTENSIONS
  /\ ~ (file.size >= MAX_FILE_SIZE_MB * BytesPerMB)

\* IntegrationService._validate_file: TRUE when no HTTPException(400) is raised.
validate_file(file) ==
  /\ lower_ext(file.filename.ext) \in ALLOWED_EXTENSIONS
  /\ ~ (file.size > MAX_FILE_SIZE_MB * BytesPerMB)

\* ------------------------------------------------------------------ the state
VARIABLES
  disk,                  \* UPLOAD_DIR: name of each file that exists -> its bytes
  integrations,          \* table integrations: id -> row
  conversation_history,  \* table conversation_history: rows in commit order
  uuids,                 \* uuid4() values generated so far
  now,                   \* datetime.utcnow(), as a logical clock
  task,                  \* each request: operation, arguments, locals, outcome
  ai,                    \* one call of AIModelService.generate_response
  fh,                    \* the last call of a FileHandler method
  fn                     \* one application of a text function

vars == <<disk, integrations, conversation_history, uuids, now, task, ai, fh, fn>>

\* Requests, numbered in the order in which they arrive.
Procs == 1 .. MaxRequests
\* The bytes of a file: the pages pdfplumber reads from it.  intact is FALSE for
\* a file whose write did not complete.
Bytes(file) == [pages |-> file.pages, size |-> file.size, intact |-> TRUE]
Truncated == [pages |-> <<>>, size |-> 0, intact |-> FALSE]

Max(S) == CHOOSE x \in S : \A y \in S : y <= x

\* The rowid SQLite gives a row inserted without one into a table whose key is
\* INTEGER PRIMARY KEY (no AUTOINCREMENT): one more than the largest in use.
next_rowid(used) == IF used = {} THEN 1 ELSE Max(used) + 1

\* The ids a client asks for: those of the records there are, and the next one,
\* which has no record yet.
Ids == (DOMAIN integrations \cup {next_rowid(DOMAIN integrations)}) \cap (1 .. MaxId)

TurnIds == {conversation_history[i].id : i \in 1 .. Len(conversation_history)}

NoRecord == [id |-> 0, filename |-> NoName, content |-> <<>>, page_count |-> 0,
             processing_status |-> "", updated_at |-> 0]

NoTask ==
  [pc |-> "idle", op |-> "", integration_id |-> 0, file |-> NoUpload,
   user_query |-> <<>>, only_text |-> FALSE,
   file_path |-> NoName, pdf_data |-> [content |-> <<>>, page_count |-> 0],
   record |-> NoRecord, loaded |-> {}, pdf_content |-> <<>>, history |-> <<>>,
   prompt |-> <<>>, assistant_response |-> <<>>, model_calls |-> 0, elapsed |-> 0,
   raised |-> "", status_code |-> 0, detail |-> <<>>, returned |-> 0,
   returned_text |-> <<>>]

\* AIModelService before generate_response is called; retry_attempts is
\* settings.RETRY_ATTEMPTS as configured.
\* No FileHandler method has been called.
NoFileCall ==
  [op |-> "", filename |-> NoName, backup_path |-> NoName, returned |-> NoName,
   before |-> << >>, follows_backup |-> FALSE]

\* No text function has been applied.
NoApplication ==
  [op |-> "", pages |-> <<>>, text |-> <<>>, result |-> <<>>, again |-> <<>>]

NoCall ==
  [pc |-> "idle", retry_attempts |-> RETRY_ATTEMPTS, attempt |-> 0, calls |-> 0,
   failures |-> <<>>, sleeps |-> <<>>, elapsed |-> 0,
   returned |-> FALSE, text |-> <<>>, raised |-> ""]

Init ==
  /\ ai = NoCall
  /\ fh = NoFileCall
  /\ fn = NoApplication
  /\ disk = << >>
  /\ integrations = << >>
  /\ conversation_history = << >>
  /\ uuids = 0
  /\ now = 0
  /\ task = [p \in Procs |-> NoTask]

\* ---------------------------------------------------------- error translation
\* decorators/integration_handle_errors.py: the status of the HTTPException that
\* leaves a decorated IntegrationService method for the exception raised in it.
handle_integration_service_errors(exc) ==
  IF exc = "IntegrationNotFoundException" THEN 404
  ELSE IF exc = "HTTPException400" THEN 400
  ELSE 500

\* decorators/chat_handle_errors.py: an HTTPException passes with its status
\* (the 404 of get_integration_by_id); anything else that is no
\* ChatServiceException becomes HTTPException(500).
handle_chat_service_errors(exc) ==
  IF exc = "IntegrationNotFoundException" THEN 404
  ELSE IF exc = "HTTPException400" THEN 400
  ELSE 500

\* str(n) of a natural number: its decimal digits.
RECURSIVE str(_)
str(n) ==
  LET digit(d) == <<"0","1","2","3","4","5","6","7","8","9">>[d + 1]
  IN IF n < 10 THEN <<digit(n)>> ELSE str(n \div 10) \o <<digit(n % 10)>>

\* A variant of the message with another wording.
IntegrationNotFoundException_reworded(integration_id) ==
  <<"Integration ">> \o str(integration_id) \o <<" not found">>

\* errors/integration_exceptions.py: f"Integration with ID {integration_id} not
\* found.", as the pieces of the f-string.
IntegrationNotFoundException_message(integration_id) ==
  <<"Integration with ID ">> \o str(integration_id) \o <<" not found.">>

\* The detail of the HTTPException that reaches the client for exc raised in the
\* request t: the message of the not-found exception, the message of the check
\* of _validate_file that failed, or "Internal Server Error: " and str(e), for
\* which the name of the exception stands.
error_detail(t, exc) ==
  IF exc = "IntegrationNotFoundException"
  THEN IntegrationNotFoundException_message(t.integration_id)
  ELSE IF exc = "HTTPException400"
  THEN IF lower_ext(t.file.filename.ext) \notin ALLOWED_EXTENSIONS
       THEN <<"Invalid file type. Allowed types: ", ".pdf">>
       ELSE <<"File size exceeds the limit of ">> \o str(MAX_FILE_SIZE_MB) \o <<" MB.">>
  ELSE <<"Internal Server Error: ", exc>>

\* The request t ends with exc raised, reported with the status code.
Fail(t, exc, code) ==
  [t EXCEPT !.pc = "done", !.raised = exc, !.status_code = code,
            !.detail = error_detail(t, exc)]

Return(t, value) ==
  [t EXCEPT !.pc = "done", !.status_code = 200, !.returned = value]

\* schemas/integration_schemas.py: the response model of upload and replace;
\* processing_status has the default ProcessingStatus.PENDING.
UploadIntegrationResponse(integration_id, filename) ==
  [integration_id |-> integration_id, filename |-> filename,
   processing_status |-> "Pending"]

\* routes/integration_route.py, create_integration and update_pdf: the response
\* is built from the id the service returned and the client's file name.
upload_route_response(t) == UploadIntegrationResponse(t.returned, t.file.filename)

\* ------------------------------------------------------------- file operations
\* os.path.exists(os.path.join(UPLOAD_DIR, name))
exists(d, name) == name \in DOMAIN d

\* A file is created or overwritten.
write_file(d, name, bytes) ==
  [n \in DOMAIN d \cup {name} |-> IF n = name THEN bytes ELSE d[n]]

\* os.remove
remove(d, name) == [n \in DOMAIN d \ {name} |-> d[n]]

\* IntegrationService._delete_file_from_disk: absence is only logged.
delete_file_from_disk(d, filename) ==
  IF exists(d, filename) THEN remove(d, filename) ELSE d

\* What a write to a new file can come to: all bytes written, or the file
\* opened and the write cut short (disk full).
WriteOutcomes == {"written", "partial"}

\* IntegrationService._save_file_to_disk: the directory after the attempt.  The
\* path is UPLOAD_DIR joined with a fresh unique name.
save_file_to_disk(d, file_path, file, outcome) ==
  IF outcome = "written" THEN write_file(d, file_path, Bytes(file))
  ELSE write_file(d, file_path, Truncated)

\* IntegrationService._extract_text_from_pdf: pdfplumber opens the path; a
\* missing or truncated file makes it raise instead of yielding pages.
extract_text_from_pdf(d, file_path) ==
  IF exists(d, file_path) /\ d[file_path].intact
  THEN sync_extract_text(d[file_path].pages)
  ELSE [ok |-> FALSE, content |-> <<>>, page_count |-> 0]

\* Which exception a failed extraction is.
extraction_error(d, file_path) ==
  IF exists(d, file_path) /\ d[file_path].intact
  THEN "PDFExtractionError" ELSE "PDFSyntaxError"

\* ------------------------------------------------------------------ requests
\* Request p arrives (after request p - 1) and its handler is entered.
Begin(p, t) ==
  /\ task[p].pc = "idle"
  /\ \A q \in Procs : q < p => task[q].pc # "idle"
  /\ task' = [task EXCEPT ![p] = t]
  /\ UNCHANGED <<disk, integrations, conversation_history, uuids, now>>

\* POST /v1/integration/
BeginCreate(p) ==
  \E f \in Uploads :
    Begin(p, [NoTask EXCEPT !.pc = "store", !.op = "process_integration", !.file = f])

\* PUT /v1/integration/{integration_id}
BeginUpdate(p) ==
  \E i \in Ids, f \in Uploads :
    Begin(p, [NoTask EXCEPT !.pc = "lookup", !.op = "update_pdf",
                            !.integration_id = i, !.file = f])

\* DELETE /v1/integration/{integration_id}
BeginDelete(p) ==
  \E i \in Ids :
    Begin(p, [NoTask EXCEPT !.pc = "lookup", !.op = "delete_integration",
                            !.integration_id = i])

\* GET /v1/integration/{integration_id}
BeginGet(p) ==
  \E i \in Ids :
    Begin(p, [NoTask EXCEPT !.pc = "lookup", !.op = "get_integration_by_id",
                            !.integration_id = i])

\* --------------------------------------------------- IntegrationService.create
\* process_integration, lines 52-53: _validate_file, then _save_file_to_disk.
CreateStore(p) ==
  LET t == task[p] IN
  /\ t.op = "process_integration" /\ t.pc = "store"
  /\ IF ~ validate_file(t.file)
     THEN /\ task' = [task EXCEPT ![p] =
                Fail(t, "HTTPException400", handle_integration_service_errors("HTTPException400"))]
          /\ UNCHANGED <<disk, uuids>>
     ELSE \E outcome \in WriteOutcomes :
            LET file_path == generate_unique_filename(uuids + 1, t.file.filename) IN
            /\ uuids' = uuids + 1
            /\ disk' = save_file_to_disk(disk, file_path, t.file, outcome)
            /\ task' = [task EXCEPT ![p] =
                 IF outcome = "written"
                 THEN [t EXCEPT !.pc = "extract", !.file_path = file_path]
                 ELSE Fail([t EXCEPT !.file_path = file_path], "OSError",
                           handle_integration_service_errors("OSError"))]
  /\ UNCHANGED <<integrations, conversation_history, now>>

\* process_integration, line 54: _extract_text_from_pdf(file_path).
CreateExtract(p) ==
  LET t == task[p]
      pdf_data == extract_text_from_pdf(disk, t.file_path) IN
  /\ t.op = "process_integration" /\ t.pc = "extract"
  /\ task' = [task EXCEPT ![p] =
       IF pdf_data.ok
       THEN [t EXCEPT !.pc = "persist",
                      !.pdf_data = [content |-> pdf_data.content,
                                    page_count |-> pdf_data.page_count]]
       ELSE Fail(t, extraction_error(disk, t.file_path),
                 handle_integration_service_errors(extraction_error(disk, t.file_path)))]
  /\ UNCHANGED <<disk, integrations, conversation_history, uuids, now>>

\* A variant that records the name the file was saved under.
record_filename_as_saved(t, n) == t.file_path

\* The name process_integration stores in the record (line 56): a second call of
\* _generate_unique_filename, so a name other than the one the file was saved
\* under.
record_filename(t, n) == generate_unique_filename(n, t.file.filename)

\* IntegrationService._save_integration_record: the row that is inserted.  The
\* column default makes processing_status Processed.
save_integration_record(id, filename, content, page_count, at) ==
  [id |-> id, filename |-> filename, content |-> content, page_count |-> page_count,
   processing_status |-> "Processed", updated_at |-> at]

insert_row(table, row) ==
  [i \in DOMAIN table \cup {row.id} |-> IF i = row.id THEN row ELSE table[i]]

\* process_integration, lines 55-59: _preprocess_text, a new unique name,
\* _save_integration_record (add, commit, refresh), return the id.
CreatePersist(p) ==
  LET t == task[p]
      id == next_rowid(DOMAIN integrations)
      row == save_integration_record(id, record_filename(t, uuids + 1),
                                     preprocess_text(t.pdf_data.content),
                                     t.pdf_data.page_count, now + 1) IN
  /\ t.op = "process_integration" /\ t.pc = "persist"
  /\ uuids' = uuids + 1
  /\ \E committed \in BOOLEAN :
       IF committed
       THEN /\ integrations' = insert_row(integrations, row)
            /\ now' = now + 1
            /\ task' = [task EXCEPT ![p] = Return([t EXCEPT !.record = row], id)]
       ELSE /\ task' = [task EXCEPT ![p] =
                  Fail(t, "SQLAlchemyError", handle_integration_service_errors("SQLAlchemyError"))]
            /\ UNCHANGED <<integrations, now>>
  /\ UNCHANGED <<disk, conversation_history>>

\* --------------------------------------- IntegrationService.get_integration_by_id
\* The row with the id, or NoRecord when .first() is None.
select_integration(id) ==
  IF id \in DOMAIN integrations THEN integrations[id] ELSE NoRecord

\* selectinload(Integration.conversation_history): the ids of the turns loaded
\* with the record.
select_turn_ids(id) ==
  {conversation_history[i].id :
     i \in {j \in 1 .. Len(conversation_history) :
              conversation_history[j].integration_id = id}}

GetById(p) ==
  LET t == task[p]
      record == select_integration(t.integration_id) IN
  /\ t.op = "get_integration_by_id" /\ t.pc = "lookup"
  /\ task' = [task EXCEPT ![p] =
       IF record = NoRecord
       THEN Fail(t, "IntegrationNotFoundException",
                 handle_integration_service_errors("IntegrationNotFoundException"))
       ELSE Return([t EXCEPT !.record = record], record.id)]
  /\ UNCHANGED <<disk, integrations, conversation_history, uuids, now>>

\* -------------------------------------------------- IntegrationService.update_pdf
\* A variant in which a replace waits at its lookup while another replace of the
\* same document is between its lookup and its commit.
UpdateLookup_exclusive(p) ==
  LET t == task[p]
      record == select_integration(t.integration_id) IN
  /\ t.op = "update_pdf" /\ t.pc = "lookup"
  /\ \A q \in Procs \ {p} :
       ~ ( /\ task[q].op = "update_pdf"
           /\ task[q].integration_id = t.integration_id
           /\ task[q].pc \in {"store", "extract", "commit"} )
  /\ IF ~ validate_file(t.file)
     THEN /\ task' = [task EXCEPT ![p] =
                Fail(t, "HTTPException400", handle_integration_service_errors("HTTPException400"))]
          /\ UNCHANGED disk
     ELSE IF record = NoRecord
     THEN /\ task' = [task EXCEPT ![p] =
                Fail(t, "IntegrationNotFoundException",
                     handle_integration_service_errors("IntegrationNotFoundException"))]
          /\ UNCHANGED disk
     ELSE /\ disk' = delete_file_from_disk(disk, record.filename)
          /\ task' = [task EXCEPT ![p] = [t EXCEPT !.pc = "store", !.record = record]]
  /\ UNCHANGED <<integrations, conversation_history, uuids, now>>

\* update_pdf, lines 76-78: _validate_file, get_integration_by_id, then
\* _delete_file_from_disk(record.filename), which suspends nowhere.
UpdateLookup(p) ==
  LET t == task[p]
      record == select_integration(t.integration_id) IN
  /\ t.op = "update_pdf" /\ t.pc = "lookup"
  /\ IF ~ validate_file(t.file)
     THEN /\ task' = [task EXCEPT ![p] =
                Fail(t, "HTTPException400", handle_integration_service_errors("HTTPException400"))]
          /\ UNCHANGED disk
     ELSE IF record = NoRecord
     THEN /\ task' = [task EXCEPT ![p] =
                Fail(t, "IntegrationNotFoundException",
                     handle_integration_service_errors("IntegrationNotFoundException"))]
          /\ UNCHANGED disk
     ELSE /\ disk' = delete_file_from_disk(disk, record.filename)
          /\ task' = [task EXCEPT ![p] = [t EXCEPT !.pc = "store", !.record = record]]
  /\ UNCHANGED <<integrations, conversation_history, uuids, now>>

\* update_pdf, line 80: _save_file_to_disk.
UpdateStore(p) ==
  LET t == task[p]
      file_path == generate_unique_filename(uuids + 1, t.file.filename) IN
  /\ t.op = "update_pdf" /\ t.pc = "store"
  /\ uuids' = uuids + 1
  /\ \E outcome \in WriteOutcomes :
       /\ disk' = save_file_to_disk(disk, file_path, t.file, outcome)
       /\ task' = [task EXCEPT ![p] =
            IF outcome = "written"
            THEN [t EXCEPT !.pc = "extract", !.file_path = file_path]
            ELSE Fail([t EXCEPT !.file_path = file_path], "OSError",
                      handle_integration_service_errors("OSError"))]
  /\ UNCHANGED <<integrations, conversation_history, now>>

\* update_pdf, line 81: _extract_text_from_pdf(new_file_path).
UpdateExtract(p) ==
  LET t == task[p]
      pdf_data == extract_text_from_pdf(disk, t.file_path) IN
  /\ t.op = "update_pdf" /\ t.pc = "extract"
  /\ task' = [task EXCEPT ![p] =
       IF pdf_data.ok
       THEN [t EXCEPT !.pc = "commit",
                      !.pdf_data = [content |-> pdf_data.content,
                                    page_count |-> pdf_data.page_count]]
       ELSE Fail(t, extraction_error(disk, t.file_path),
                 handle_integration_service_errors(extraction_error(disk, t.file_path)))]
  /\ UNCHANGED <<disk, integrations, conversation_history, uuids, now>>

\* The fields update_pdf assigns (lines 82-86): the client's file name, the
\* preprocessed content, the page count.
updated_fields(t) ==
  [filename |-> t.file.filename,
   content |-> preprocess_text(t.pdf_data.content),
   page_count |-> t.pdf_data.page_count]

\* The UPDATE the session flushes at commit: it sets the columns whose new value
\* differs from the value loaded at lookup, and updated_at (onupdate) with them.
flush_update(row, loaded, new, at) ==
  IF new.filename = loaded.filename /\ new.content = loaded.content
     /\ new.page_count = loaded.page_count
  THEN row
  ELSE [row EXCEPT
          !.filename = IF new.filename # loaded.filename THEN new.filename ELSE @,
          !.content = IF new.content # loaded.content THEN new.content ELSE @,
          !.page_count = IF new.page_count # loaded.page_count THEN new.page_count ELSE @,
          !.updated_at = at]

\* update_pdf, lines 82-91: assign, commit, refresh, return the id.  A row that
\* is gone by now makes the flush or the refresh raise.
UpdateCommit(p) ==
  LET t == task[p]
      id == t.record.id IN
  /\ t.op = "update_pdf" /\ t.pc = "commit"
  /\ IF id \in DOMAIN integrations
     THEN LET row == flush_update(integrations[id], t.record, updated_fields(t), now + 1) IN
          /\ integrations' = [integrations EXCEPT ![id] = row]
          /\ now' = now + 1
          /\ task' = [task EXCEPT ![p] = Return([t EXCEPT !.record = row], id)]
     ELSE /\ task' = [task EXCEPT ![p] =
                Fail(t, "StaleDataError", handle_integration_service_errors("StaleDataError"))]
          /\ UNCHANGED <<integrations, now>>
  /\ UNCHANGED <<disk, conversation_history, uuids>>

\* -------------------------------------------- IntegrationService.delete_integration
\* A variant in which the removal of an absent file is an error.
DeleteLookup_needs_file(p) ==
  LET t == task[p]
      record == select_integration(t.integration_id) IN
  /\ t.op = "delete_integration" /\ t.pc = "lookup"
  /\ IF record = NoRecord
     THEN /\ task' = [task EXCEPT ![p] =
                Fail(t, "IntegrationNotFoundException",
                     handle_integration_service_errors("IntegrationNotFoundException"))]
          /\ UNCHANGED disk
     ELSE IF ~ exists(disk, record.filename)
     THEN /\ task' = [task EXCEPT ![p] =
                Fail(t, "FileNotFoundError",
                     handle_integration_service_errors("FileNotFoundError"))]
          /\ UNCHANGED disk
     ELSE /\ disk' = remove(disk, record.filename)
          /\ task' = [task EXCEPT ![p] =
                [t EXCEPT !.pc = "commit", !.record = record,
                          !.loaded = select_turn_ids(record.id)]]
  /\ UNCHANGED <<integrations, conversation_history, uuids, now>>

\* delete_integration, lines 104-106: get_integration_by_id (the turns loaded
\* with it), _delete_file_from_disk, db.delete.
DeleteLookup(p) ==
  LET t == task[p]
      record == select_integration(t.integration_id) IN
  /\ t.op = "delete_integration" /\ t.pc = "lookup"
  /\ IF record = NoRecord
     THEN /\ task' = [task EXCEPT ![p] =
                Fail(t, "IntegrationNotFoundException",
                     handle_integration_service_errors("IntegrationNotFoundException"))]
          /\ UNCHANGED disk
     ELSE /\ disk' = delete_file_from_disk(disk, record.filename)
          /\ task' = [task EXCEPT ![p] =
                [t EXCEPT !.pc = "commit", !.record = record,
                          !.loaded = select_turn_ids(record.id)]]
  /\ UNCHANGED <<integrations, conversation_history, uuids, now>>

\* The rows the flush of db.delete(record) removes: cascade="all, delete-orphan"
\* deletes the turns that were loaded with the record, each by its id.
cascade_delete(history, ids) ==
  LET Keep(row) == row.id \notin ids IN SelectSeq(history, Keep)

delete_row(table, id) == [i \in DOMAIN table \ {id} |-> table[i]]

\* delete_integration, line 107: commit.  A DELETE that matches no row is only
\* warned about.
DeleteCommit(p) ==
  LET t == task[p] IN
  /\ t.op = "delete_integration" /\ t.pc = "commit"
  /\ conversation_history' = cascade_delete(conversation_history, t.loaded)
  /\ integrations' = delete_row(integrations, t.record.id)
  /\ now' = now + 1
  /\ task' = [task EXCEPT ![p] = Return(t, 0)]
  /\ UNCHANGED <<disk, uuids>>

\* -------------------------------------------------------------- ChatService
\* What the clients ask.
Queries == { <<"Q","?">> }

\* POST /v1/chat/chat_with_pdf (only_text FALSE) and /v1/chat/chat_normal (TRUE)
BeginChat(p) ==
  \E i \in Ids, q \in Queries, only_text \in BOOLEAN :
    Begin(p, [NoTask EXCEPT !.pc = "content", !.op = "generate_response",
                            !.integration_id = i, !.user_query = q,
                            !.only_text = only_text])

\* A variant that never rejects a content.
content_never_missing(content) == FALSE

\* `not pdf.content`: true of the empty string alone.
content_is_missing(content) == content = <<>>

\* ChatService._fetch_pdf_content / PDFContentService.fetch_pdf_content:
\* get_integration_by_id, then the check of the content.
ChatFetchContent(p) ==
  LET t == task[p]
      pdf == select_integration(t.integration_id) IN
  /\ t.op = "generate_response" /\ t.pc = "content"
  /\ task' = [task EXCEPT ![p] =
       IF pdf = NoRecord
       THEN Fail(t, "IntegrationNotFoundException",
                 handle_chat_service_errors("IntegrationNotFoundException"))
       ELSE IF content_is_missing(pdf.content)
       THEN Fail(t, "ValueError", handle_chat_service_errors("ValueError"))
       ELSE [t EXCEPT !.pc = "history", !.pdf_content = pdf.content]]
  /\ UNCHANGED <<disk, integrations, conversation_history, uuids, now>>

\* A variant that walks the table from the largest id down.
RECURSIVE sort_by_id_desc(_)
sort_by_id_desc(rows) ==
  IF rows = {} THEN <<>>
  ELSE LET first == CHOOSE r \in rows : \A o \in rows : r.id >= o.id
       IN <<first>> \o sort_by_id_desc(rows \ {first})

\* The rows of a table scan by rowid: SELECT ... WHERE integration_id = ? has no
\* ORDER BY and no index on integration_id, so SQLite walks the table in id order.
RECURSIVE sort_by_id(_)
sort_by_id(rows) ==
  IF rows = {} THEN <<>>
  ELSE LET first == CHOOSE r \in rows : \A o \in rows : r.id <= o.id
       IN <<first>> \o sort_by_id(rows \ {first})

\* ChatService._fetch_conversation_history / HistoryService.fetch_conversation_history
fetch_conversation_history(integration_id) ==
  sort_by_id({conversation_history[i] :
                i \in {j \in 1 .. Len(conversation_history) :
                         conversation_history[j].integration_id = integration_id}})

\* "\n".join(lines)
RECURSIVE join_newline(_)
join_newline(parts) ==
  IF parts = <<>> THEN <<>>
  ELSE IF Len(parts) = 1 THEN parts[1]
       ELSE parts[1] \o <<"\n">> \o join_newline(Tail(parts))

UserLabel == <<"U","s","e","r",":"," ">>
AssistantLabel == <<"A","s","s","i","s","t","a","n","t",":">>
PdfLabel == <<"P","D","F"," ","C","o","n","t","e","n","t",":">>

\* f"User: {h.user_query}\nAssistant: {h.assistant_response}"
turn_lines(h) ==
  UserLabel \o h.user_query \o <<"\n">> \o AssistantLabel \o <<" ">> \o h.assistant_response

\* A variant that appends the document text whatever only_text is.
construct_prompt_always_with_text(history, user_query, pdf_content, only_text) ==
  LET history_prompt == join_newline([i \in 1 .. Len(history) |-> turn_lines(history[i])])
  IN history_prompt \o <<"\n">> \o UserLabel \o user_query
       \o <<"\n","\n">> \o PdfLabel \o <<"\n">> \o pdf_content
       \o <<"\n">> \o AssistantLabel

\* ChatService._construct_prompt / PromptBuilder.construct_prompt
construct_prompt(history, user_query, pdf_content, only_text) ==
  LET history_prompt == join_newline([i \in 1 .. Len(history) |-> turn_lines(history[i])])
  IN IF only_text
     THEN history_prompt \o <<"\n">> \o UserLabel \o user_query
            \o <<"\n","\n">> \o AssistantLabel
     ELSE history_prompt \o <<"\n">> \o UserLabel \o user_query
            \o <<"\n","\n">> \o PdfLabel \o <<"\n">> \o pdf_content
            \o <<"\n">> \o AssistantLabel

\* generate_response, lines 54-56: _fetch_conversation_history, _construct_prompt,
\* and the call of the model is handed to a thread.
ChatFetchHistory(p) ==
  LET t == task[p]
      history == fetch_conversation_history(t.integration_id) IN
  /\ t.op = "generate_response" /\ t.pc = "history"
  /\ task' = [task EXCEPT ![p] =
       [t EXCEPT !.pc = "model", !.history = history,
                 !.prompt = construct_prompt(history, t.user_query, t.pdf_content, t.only_text),
                 !.model_calls = @ + 1]]
  /\ UNCHANGED <<disk, integrations, conversation_history, uuids, now>>

\* What model.generate_content comes to: a text, after so many seconds, or an
\* exception: RetryError (the rate limit), or any other.
ModelOutcomes ==
  {[kind |-> "text", text |-> <<"A">>, elapsed |-> 1],
   [kind |-> "text", text |-> <<"B">>, elapsed |-> TIMEOUT_SECONDS + 1],
   [kind |-> "RetryError", text |-> <<>>, elapsed |-> 1],
   [kind |-> "Exception", text |-> <<>>, elapsed |-> 1]}

\* A column that holds NULL.
Null == << "NULL" >>

\* A variant that stores the response in both columns.
save_conversation_history_response_twice(id, integration_id, user_query, assistant_response) ==
  [id |-> id, integration_id |-> integration_id, user_query |-> assistant_response,
   assistant_response |-> assistant_response]

\* ChatService._save_conversation_history / HistoryService.save_conversation_history:
\* the row that is added.
save_conversation_history(id, integration_id, user_query, assistant_response) ==
  [id |-> id, integration_id |-> integration_id, user_query |-> user_query,
   assistant_response |-> assistant_response]

\* A variant that keeps the query of a run whose model call failed, as a turn
\* with no response.
ChatModelReturns_keeps_failed_query(p) ==
  LET t == task[p] IN
  /\ t.op = "generate_response" /\ t.pc = "model"
  /\ \E o \in ModelOutcomes :
       /\ task' = [task EXCEPT ![p] =
            IF o.kind = "text"
            THEN [t EXCEPT !.pc = "save", !.assistant_response = o.text, !.elapsed = o.elapsed]
            ELSE Fail([t EXCEPT !.elapsed = o.elapsed], o.kind, handle_chat_service_errors(o.kind))]
       /\ conversation_history' =
            IF o.kind = "text" THEN conversation_history
            ELSE Append(conversation_history,
                        save_conversation_history(next_rowid(TurnIds), t.integration_id,
                                                  t.user_query, Null))
  /\ UNCHANGED <<disk, integrations, uuids, now>>

\* ChatService._generate_response_from_model: one call, awaited as long as it
\* takes; what it raises leaves generate_response as HTTPException(500).
ChatModelReturns(p) ==
  LET t == task[p] IN
  /\ t.op = "generate_response" /\ t.pc = "model"
  /\ \E o \in ModelOutcomes :
       task' = [task EXCEPT ![p] =
         IF o.kind = "text"
         THEN [t EXCEPT !.pc = "save", !.assistant_response = o.text, !.elapsed = o.elapsed]
         ELSE Fail([t EXCEPT !.elapsed = o.elapsed], o.kind, handle_chat_service_errors(o.kind))]
  /\ UNCHANGED <<disk, integrations, conversation_history, uuids, now>>

\* generate_response, lines 57-59: the turn is inserted and committed (SQLite
\* does not enforce the foreign key), and the response is returned.
ChatSave(p) ==
  LET t == task[p]
      row == save_conversation_history(next_rowid(TurnIds), t.integration_id,
                                       t.user_query, t.assistant_response) IN
  /\ t.op = "generate_response" /\ t.pc = "save"
  /\ conversation_history' = Append(conversation_history, row)
  /\ task' = [task EXCEPT ![p] =
       [Return(t, 0) EXCEPT !.returned_text = t.assistant_response]]
  /\ UNCHANGED <<disk, integrations, uuids, now>>

\* ------------------------------------------------------------ AIModelService
\* Largest settings.RETRY_ATTEMPTS configured.
MaxRetryAttempts == 3

\* What one model.generate_content call can come to here: those of ModelOutcomes
\* and InvalidArgument (bad key or arguments).
ClientOutcomes ==
  ModelOutcomes \cup {[kind |-> "InvalidArgument", text |-> <<>>, elapsed |-> 1]}

\* asyncio.wait_for(..., timeout=self.timeout): a call still running after
\* timeout seconds is abandoned with asyncio.TimeoutError.
wait_for(o, timeout) ==
  IF o.elapsed > timeout
  THEN [kind |-> "TimeoutError", text |-> <<>>, elapsed |-> timeout]
  ELSE o

\* 2 ** attempt
RECURSIVE pow2(_)
pow2(n) == IF n = 0 THEN 1 ELSE 2 * pow2(n - 1)

\* A variant that sleeps the same time after every failed attempt.
backoff_constant(attempt) == 2

\* asyncio.sleep(2 ** attempt) after a failed attempt
backoff(attempt) == pow2(attempt)

\* A variant that sleeps and goes on after the last attempt too.
may_retry_once_more(attempt, retry_attempts) == attempt <= retry_attempts

\* `if attempt < self.retry_attempts`: another attempt follows.
may_retry(attempt, retry_attempts) == attempt < retry_attempts

\* The error generate_response raises once the attempts are used up.
exhausted_error(kind) ==
  IF kind = "RetryError" THEN "RateLimitExceededError"
  ELSE IF kind = "TimeoutError" THEN "TimeoutError"
  ELSE "AIModelError"

\* AIModelService.generate_response is called, with some configured number of
\* attempts: `for attempt in range(1, self.retry_attempts + 1)` is entered, or
\* falls through at once and the method returns None.
GenCall ==
  /\ ai.pc = "idle"
  /\ \E n \in 0 .. MaxRetryAttempts :
       ai' = IF n >= 1
             THEN [NoCall EXCEPT !.pc = "attempt", !.retry_attempts = n, !.attempt = 1]
             ELSE [NoCall EXCEPT !.pc = "done", !.retry_attempts = n]
  /\ UNCHANGED <<disk, integrations, conversation_history, uuids, now, task>>

\* A variant that treats InvalidArgument like any other exception.
GenAttempt_retries_invalid_argument ==
  /\ ai.pc = "attempt"
  /\ \E raw \in ClientOutcomes :
       LET o == wait_for(raw, TIMEOUT_SECONDS)
           made == [ai EXCEPT !.calls = @ + 1, !.elapsed = o.elapsed] IN
       ai' = IF o.kind = "text"
             THEN [made EXCEPT !.pc = "done", !.returned = TRUE, !.text = o.text]
             ELSE IF may_retry(ai.attempt, ai.retry_attempts)
             THEN [made EXCEPT !.pc = "sleep", !.failures = Append(@, o.kind)]
             ELSE [made EXCEPT !.pc = "done", !.raised = exhausted_error(o.kind),
                               !.failures = Append(@, o.kind)]
  /\ UNCHANGED <<disk, integrations, conversation_history, uuids, now, task>>

\* One pass of the loop body, lines 46-73, up to the return, the raise or the
\* sleep.
GenAttempt ==
  /\ ai.pc = "attempt"
  /\ \E raw \in ClientOutcomes :
       LET o == wait_for(raw, TIMEOUT_SECONDS)
           made == [ai EXCEPT !.calls = @ + 1, !.elapsed = o.elapsed] IN
       ai' = IF o.kind = "text"
             THEN [made EXCEPT !.pc = "done", !.returned = TRUE, !.text = o.text]
             ELSE IF o.kind = "InvalidArgument"
             THEN [made EXCEPT !.pc = "done", !.raised = "AIModelError",
                               !.failures = Append(@, o.kind)]
             ELSE IF may_retry(ai.attempt, ai.retry_attempts)
             THEN [made EXCEPT !.pc = "sleep", !.failures = Append(@, o.kind)]
             ELSE [made EXCEPT !.pc = "done", !.raised = exhausted_error(o.kind),
                               !.failures = Append(@, o.kind)]
  /\ UNCHANGED <<disk, integrations, conversation_history, uuids, now, task>>

\* The backoff sleep is over: `continue` with the next attempt.
GenWake ==
  /\ ai.pc = "sleep"
  /\ ai' = [ai EXCEPT !.pc = "attempt", !.sleeps = Append(@, backoff(ai.attempt)),
                      !.attempt = @ + 1]
  /\ UNCHANGED <<disk, integrations, conversation_history, uuids, now, task>>

\* The caller has its answer; the service is called again.
GenReset ==
  /\ ai.pc = "done"
  /\ ai' = NoCall
  /\ UNCHANGED <<disk, integrations, conversation_history, uuids, now, task>>

NextGen ==
  /\ UNCHANGED <<fh, fn>>
  /\ (GenCall \/ GenAttempt \/ GenWake \/ GenReset)

SpecGen == Init /\ [][NextGen]_vars

\* ------------------------------------------------------------- specifications
\* The ingestion service: create, replace, delete and get requests.
Next ==
  /\ UNCHANGED <<ai, fh, fn>>
  /\ \E p \in Procs :
       \/ BeginCreate(p) \/ BeginUpdate(p) \/ BeginDelete(p) \/ BeginGet(p)
       \/ CreateStore(p) \/ CreateExtract(p) \/ CreatePersist(p)
       \/ UpdateLookup(p) \/ UpdateStore(p) \/ UpdateExtract(p) \/ UpdateCommit(p)
       \/ DeleteLookup(p) \/ DeleteCommit(p)
       \/ GetById(p)

Spec == Init /\ [][Next]_vars

\* The store after two uploads made one after the other: UpHello as document 1,
\* then `second` as document 2, as process_integration leaves them.
after_two_uploads(second) ==
  [disk |-> write_file(write_file(<< >>, generate_unique_filename(1, UpHello.filename),
                                  Bytes(UpHello)),
                       generate_unique_filename(3, second.filename), Bytes(second)),
   integrations |->
     insert_row(insert_row(<< >>,
       save_integration_record(1, generate_unique_filename(2, UpHello.filename),
         preprocess_text(sync_extract_text(UpHello.pages).content),
         sync_extract_text(UpHello.pages).page_count, 1)),
       save_integration_record(2, generate_unique_filename(4, second.filename),
         preprocess_text(sync_extract_text(second.pages).content),
         sync_extract_text(second.pages).page_count, 2))]

\* Document 2 has content (UpTwoPages) or an empty content (UpSymbols).
InitChat ==
  /\ ai = NoCall
  /\ fh = NoFileCall
  /\ fn = NoApplication
  /\ \E second \in {UpTwoPages, UpSymbols} :
       /\ disk = after_two_uploads(second).disk
       /\ integrations = after_two_uploads(second).integrations
  /\ conversation_history = << >>
  /\ uuids = 4
  /\ now = 2
  /\ task = [p \in Procs |-> NoTask]

\* The conversation service, with deletions going on.
NextChat ==
  /\ UNCHANGED <<ai, fh, fn>>
  /\ \E p \in Procs :
       \/ BeginChat(p) \/ BeginDelete(p)
       \/ ChatFetchContent(p) \/ ChatFetchHistory(p) \/ ChatModelReturns(p) \/ ChatSave(p)
       \/ DeleteLookup(p) \/ DeleteCommit(p)

SpecChat == InitChat /\ [][NextChat]_vars

\* ======================================================================= claims
Finished(p) == task[p].pc = "done"
Succeeded(p) == task[p].pc = "done" /\ task[p].status_code = 200
Failed(p) == task[p].pc = "done" /\ task[p].status_code # 200
Quiescent == \A p \in Procs : task[p].pc \in {"idle", "done"}

\* Request p takes a step that does not end it with success.
StepShortOfSuccess(p) ==
  /\ task'[p] # task[p]
  /\ ~ (task'[p].pc = "done" /\ task'[p].status_code = 200)

\* Every file there was is still there with the same bytes.
FilesKept == \A n \in DOMAIN disk : n \in DOMAIN disk' /\ disk'[n] = disk[n]

Rows(history) == {history[i] : i \in 1 .. Len(history)}

\* C1 (as claimed): a create that fails after its file was written, because the
\* extraction finds no text or because the commit fails, leaves neither the file
\* it stored in the upload directory nor a new record.
C1_FailedCreateLeavesNoFile ==
  \A p \in Procs :
    ( /\ task[p].op = "process_integration"
      /\ Failed(p)
      /\ task[p].raised \in {"PDFExtractionError", "SQLAlchemyError"} )
    => /\ ~ exists(disk, task[p].file_path)
       /\ task[p].record = NoRecord

\* C2: every step of a replace, except the commit that ends it with success,
\* leaves every Document record and every file of the upload directory as it
\* was; so a replace that fails while storing or extracting has changed neither
\* the record nor the document's file.
C2_FailedReplaceChangesNothing ==
  [][ \A p \in Procs :
        (task[p].op = "update_pdf" /\ StepShortOfSuccess(p))
        => (integrations' = integrations /\ FilesKept) ]_vars

\* A replace of an existing document has failed in the extraction, and the record
\* is the one it looked up.
C2_Witness ==
  \E p \in Procs :
    /\ task[p].op = "update_pdf" /\ Failed(p)
    /\ task[p].raised = "PDFExtractionError"
    /\ task[p].record # NoRecord
    /\ select_integration(task[p].integration_id) = task[p].record
    /\ \E n \in DOMAIN disk : n # task[p].file_path /\ disk[n].intact

\* C3 (as claimed): with no request in flight, every record's filename names a file
\* of the upload directory and every file there is named by exactly one record.
C3_RecordsAndFilesAgree ==
  Quiescent =>
    /\ \A id \in DOMAIN integrations : exists(disk, integrations[id].filename)
    /\ \A n \in DOMAIN disk :
         Cardinality({id \in DOMAIN integrations : integrations[id].filename = n}) = 1

\* C4 (as claimed): once a delete of an id has completed, no record has that id
\* and no stored turn refers to it, whatever is done afterwards.
C4_DeletedStaysDeleted ==
  \A p \in Procs :
    (task[p].op = "delete_integration" /\ Succeeded(p))
    => /\ select_integration(task[p].integration_id) = NoRecord
       /\ \A row \in Rows(conversation_history) :
            row.integration_id # task[p].integration_id

\* C5: a chat run whose model call fails ends there with the error (status 500),
\* and no step of a chat run other than the one that ends it with success
\* changes the stored turns; a finished run takes no further step.
C5_FailedChatAddsNoTurn ==
  [][ \A p \in Procs :
        /\ (task[p].op = "generate_response" /\ StepShortOfSuccess(p))
             => conversation_history' = conversation_history
        /\ (task[p].pc = "model" /\ task'[p].raised \in {"RetryError", "Exception"})
             => (task'[p].pc = "done" /\ task'[p].status_code = 500)
        /\ task[p].pc = "done" => task'[p] = task[p] ]_vars

\* A chat run has failed in its model call.
C5_Witness ==
  \E p \in Procs :
    /\ task[p].op = "generate_response" /\ Failed(p)
    /\ task[p].raised = "RetryError"
    /\ task[p].model_calls = 1

\* C6: the step that ends a chat run with success appends one turn holding the
\* run's document id, its query and the model's response, and returns that
\* response; no other step of a chat run changes the turns; every stored turn has
\* both its query and its response; and only the commit of a delete removes or
\* changes a stored turn.
C6_OneWholeTurnPerChat ==
  /\ [](\A row \in Rows(conversation_history) :
          row.user_query # Null /\ row.assistant_response # Null)
  /\ [][ \A p \in Procs :
           /\ (task[p].op = "generate_response" /\ task'[p] # task[p]
               /\ task'[p].pc = "done" /\ task'[p].status_code = 200)
                => /\ Len(conversation_history') = Len(conversation_history) + 1
                   /\ SubSeq(conversation_history', 1, Len(conversation_history))
                        = conversation_history
                   /\ LET row == conversation_history'[Len(conversation_history')] IN
                        /\ row.integration_id = task[p].integration_id
                        /\ row.user_query = task[p].user_query
                        /\ row.assistant_response = task[p].assistant_response
                        /\ task'[p].returned_text = row.assistant_response
           /\ (task[p].op = "generate_response" /\ StepShortOfSuccess(p))
                => conversation_history' = conversation_history
           /\ (task'[p] # task[p]
               /\ ~ (task[p].op = "delete_integration" /\ task[p].pc = "commit"))
                => Rows(conversation_history) \subseteq Rows(conversation_history') ]_vars

\* A chat run has succeeded and its turn is stored.
C6_Witness ==
  \E p \in Procs :
    /\ task[p].op = "generate_response" /\ Succeeded(p)
    /\ \E row \in Rows(conversation_history) :
         /\ row.integration_id = task[p].integration_id
         /\ row.user_query = task[p].user_query
         /\ row.assistant_response = task[p].returned_text

OfDocument(id) == LET Test(row) == row.integration_id = id IN
                    SelectSeq(conversation_history, Test)

C8_ChatRejectsBeforeModelCall ==
  [][ \A p \in Procs :
        (task[p].op = "generate_response" /\ task[p].pc = "content"
         /\ task'[p] # task[p])
        => LET pdf == select_integration(task[p].integration_id) IN
           /\ pdf = NoRecord
                => /\ task'[p].pc = "done"
                   /\ task'[p].raised = "IntegrationNotFoundException"
                   /\ task'[p].status_code = 404
                   /\ task'[p].model_calls = 0
                   /\ conversation_history' = conversation_history
           /\ (pdf # NoRecord /\ strip(pdf.content) = <<>>)
                => /\ task'[p].pc = "done"
                   /\ task'[p].raised = "ValueError"
                   /\ task'[p].status_code # 200
                   /\ task'[p].model_calls = 0
                   /\ conversation_history' = conversation_history ]_vars

\* One chat run was refused for a missing record and one for an empty content.
C8_Witness ==
  /\ \E p \in Procs :
       /\ task[p].op = "generate_response" /\ Failed(p)
       /\ task[p].raised = "IntegrationNotFoundException" /\ task[p].model_calls = 0
  /\ \E p \in Procs :
       /\ task[p].op = "generate_response" /\ Failed(p)
       /\ task[p].raised = "ValueError" /\ task[p].model_calls = 0

\* C9 (as claimed): a chat run whose model attempt fails with a rate-limit error
\* gives up only after the configured number of attempts, and no attempt of a
\* chat run lasts longer than the configured timeout.
C9_ChatRetriesWithinTimeout ==
  \A p \in Procs :
    (task[p].op = "generate_response" /\ Finished(p))
    => /\ task[p].raised = "RetryError" => task[p].model_calls = RETRY_ATTEMPTS
       /\ task[p].elapsed <= TIMEOUT_SECONDS

AllFailuresAre(kind) ==
  /\ ai.pc = "done" /\ ~ ai.returned /\ ai.failures # <<>>
  /\ \A i \in 1 .. Len(ai.failures) : ai.failures[i] = kind

Exhausted ==
  /\ ai.calls = ai.retry_attempts
  /\ Len(ai.sleeps) = ai.retry_attempts - 1

\* C10: generate_response never makes more attempts than configured; when every
\* attempt fails with RetryError it raises RateLimitExceededError, with
\* asyncio.TimeoutError it raises TimeoutError, with another exception it raises
\* AIModelError, each time after exactly the configured number of attempts and
\* one sleep fewer.
C10_RetriesExhausted ==
  /\ ai.calls <= ai.retry_attempts
  /\ Len(ai.sleeps) <= ai.calls
  /\ AllFailuresAre("RetryError") => (ai.raised = "RateLimitExceededError" /\ Exhausted)
  /\ AllFailuresAre("TimeoutError") => (ai.raised = "TimeoutError" /\ Exhausted)
  /\ AllFailuresAre("Exception") => (ai.raised = "AIModelError" /\ Exhausted)

\* Three attempts were configured and each hit the rate limit.
C10_Witness ==
  /\ AllFailuresAre("RetryError")
  /\ ai.retry_attempts = 3 /\ ai.calls = 3
  /\ ai.sleeps = <<2, 4>>
  /\ ai.raised = "RateLimitExceededError"

\* C11: an attempt that fails with InvalidArgument, whatever its number, is the
\* last one: generate_response raises AIModelError at once, with no attempt and
\* no sleep after it.
C11_InvalidArgumentFailsAtOnce ==
  \A i \in 1 .. Len(ai.failures) :
    ai.failures[i] = "InvalidArgument"
    => /\ i = Len(ai.failures)
       /\ ai.pc = "done"
       /\ ai.raised = "AIModelError"
       /\ ai.calls = i
       /\ Len(ai.sleeps) = i - 1

\* The second of three attempts failed with InvalidArgument after a rate limit.
C11_Witness ==
  /\ ai.pc = "done" /\ ai.retry_attempts = 3
  /\ ai.failures = <<"RetryError", "InvalidArgument">>
  /\ ai.raised = "AIModelError"
  /\ ai.calls = 2 /\ ai.sleeps = <<2>>

\* C12: when attempts 1 .. k-1 fail with RetryError and attempt k returns a text,
\* generate_response returns that text after exactly k attempts and k-1 sleeps,
\* the sleep after failed attempt i lasting 2^i seconds (2, then 4).
C12_BackoffThenSuccess ==
  ( /\ ai.pc = "done" /\ ai.returned
    /\ \A i \in 1 .. Len(ai.failures) : ai.failures[i] = "RetryError" )
  => /\ ai.calls = Len(ai.failures) + 1
     /\ ai.calls <= ai.retry_attempts
     /\ ai.text # <<>> /\ ai.raised = ""
     /\ Len(ai.sleeps) = Len(ai.failures)
     /\ \A i \in 1 .. Len(ai.sleeps) :
          ai.sleeps[i] = IF i = 1 THEN 2 ELSE 2 * ai.sleeps[i - 1]

\* Two rate limits, then the third attempt returned.
C12_Witness ==
  /\ ai.pc = "done" /\ ai.returned /\ ai.text = <<"A">>
  /\ ai.failures = <<"RetryError", "RetryError">>
  /\ ai.calls = 3
  /\ ai.sleeps = <<2, 4>>

\* What the extraction of an accepted upload puts in a record.
Extracted(f) ==
  [content |-> preprocess_text(sync_extract_text(f.pages).content),
   page_count |-> Len(f.pages)]

\* C13 (as claimed): every record whose status is Processed has a non-empty
\* content, and its content and page_count are those of one extraction.
C13_ProcessedHasContent ==
  \A id \in DOMAIN integrations :
    integrations[id].processing_status = "Processed"
    => /\ integrations[id].content # <<>>
       /\ \E f \in Uploads :
            /\ integrations[id].content = Extracted(f).content
            /\ integrations[id].page_count = Extracted(f).page_count

\* Request p is at the step of create or replace that validates its file.
AtValidation(p) ==
  \/ task[p].op = "process_integration" /\ task[p].pc = "store"
  \/ task[p].op = "update_pdf" /\ task[p].pc = "lookup"

NotPdf(f) == f.filename.ext \notin {".pdf", ".PDF"}
TooBig(f) == f.size > MAX_FILE_SIZE_MB * BytesPerMB

\* C14: the validating step of create and of replace refuses a file that is not
\* a .pdf or is larger than MAX_FILE_SIZE_MB megabytes with HTTP 400, and that
\* step changes no file, no record and no turn; a .pdf of at most the maximum
\* size, the maximum included, is not refused.
C14_InvalidFileRejectedFirst ==
  [][ \A p \in Procs :
        (AtValidation(p) /\ task'[p] # task[p])
        => LET f == task[p].file IN
           /\ (NotPdf(f) \/ TooBig(f))
                => /\ task'[p].pc = "done"
                   /\ task'[p].raised = "HTTPException400"
                   /\ task'[p].status_code = 400
                   /\ disk' = disk /\ integrations' = integrations
                   /\ conversation_history' = conversation_history
           /\ (~ NotPdf(f) /\ ~ TooBig(f))
                => task'[p].raised # "HTTPException400" ]_vars

\* A .txt and an oversized .pdf were refused, and a .pdf of exactly the maximum
\* size was stored.
C14_Witness ==
  /\ \E p \in Procs : Failed(p) /\ task[p].raised = "HTTPException400"
                      /\ NotPdf(task[p].file)
  /\ \E p \in Procs : Failed(p) /\ task[p].raised = "HTTPException400"
                      /\ ~ NotPdf(task[p].file) /\ TooBig(task[p].file)
                      /\ task[p].op = "update_pdf"
  /\ \E p \in Procs : /\ task[p].file.size = MAX_FILE_SIZE_MB * BytesPerMB
                      /\ exists(disk, task[p].file_path)

\* C15 (as claimed): replace on an id that has no record fails with NotFoundError
\* (404) whatever file is supplied, and changes no file and no record.
C15_ReplaceLooksUpFirst ==
  [][ \A p \in Procs :
        ( /\ task[p].op = "update_pdf" /\ task[p].pc = "lookup"
          /\ task'[p] # task[p]
          /\ select_integration(task[p].integration_id) = NoRecord )
        => /\ task'[p].raised = "IntegrationNotFoundException"
           /\ task'[p].status_code = 404
           /\ disk' = disk /\ integrations' = integrations ]_vars

\* C16 (as claimed): the step that ends a replace with success leaves the record
\* with its id, the generated name the new file was stored under, the content and
\* page count of the new file and a later timestamp; the new file exists under
\* the record's name and the file the record named before does not.
C16_ReplacedRecordNamesNewFile ==
  [][ \A p \in Procs :
        ( /\ task[p].op = "update_pdf" /\ task[p].pc = "commit"
          /\ task'[p].pc = "done" /\ task'[p].status_code = 200 )
        => LET id == task[p].record.id
               new == integrations'[id] IN
           /\ task'[p].returned = id /\ new.id = id
           /\ new.filename.gen /\ new.filename = task[p].file_path
           /\ new.content = Extracted(task[p].file).content
           /\ new.page_count = Extracted(task[p].file).page_count
           /\ new.updated_at > integrations[id].updated_at
           /\ exists(disk', new.filename)
           /\ ~ exists(disk', integrations[id].filename) ]_vars

HiYou == <<"H","i"," ","y","o","u","!">>

\* C17: the step that ends a create with success inserts a record with a new id,
\* which it returns, whose content is the normalized text of the upload and whose
\* page_count is its number of pages (the page "Hi  you!" gives "Hi you!" and 1);
\* an intact upload with text passes the extraction; a get of an id that has a
\* record returns that record.
C17_CreateThenGet ==
  [][ \A p \in Procs :
        /\ ( /\ task[p].op = "process_integration" /\ task[p].pc = "persist"
             /\ task'[p].pc = "done" /\ task'[p].status_code = 200 )
           => LET id == task'[p].returned IN
              /\ id \notin DOMAIN integrations
              /\ DOMAIN integrations' = DOMAIN integrations \cup {id}
              /\ \A o \in DOMAIN integrations : integrations'[o] = integrations[o]
              /\ integrations'[id].id = id
              /\ integrations'[id].content = Extracted(task[p].file).content
              /\ integrations'[id].page_count = Len(task[p].file.pages)
              /\ task[p].file = UpHello
                   => (integrations'[id].content = HiYou /\ integrations'[id].page_count = 1)
        /\ ( /\ task[p].op = "process_integration" /\ task[p].pc = "extract"
             /\ task'[p] # task[p]
             /\ \E i \in 1 .. Len(task[p].file.pages) :
                  strip(task[p].file.pages[i]) # <<>> )
           => task'[p].pc = "persist"
        /\ ( /\ task[p].op = "get_integration_by_id" /\ task[p].pc = "lookup"
             /\ task'[p] # task[p]
             /\ task[p].integration_id \in DOMAIN integrations )
           => /\ task'[p].pc = "done" /\ task'[p].status_code = 200
              /\ task'[p].record = integrations[task[p].integration_id] ]_vars

\* UpHello was created and a get of the returned id gave "Hi you!", one page.
C17_Witness ==
  \E p, q \in Procs :
    /\ task[p].op = "process_integration" /\ Succeeded(p) /\ task[p].file = UpHello
    /\ task[q].op = "get_integration_by_id" /\ Succeeded(q)
    /\ task[q].integration_id = task[p].returned
    /\ task[q].record.content = HiYou /\ task[q].record.page_count = 1

\* C18 (as claimed): a request that fails reports the status of the class of its
\* error: 400 for a refused file and for an extraction error, 404 for a missing
\* record, 500 for anything else.
C18_StatusOfErrorClass ==
  \A p \in Procs :
    Failed(p)
    => task[p].status_code =
         IF task[p].raised \in {"HTTPException400", "PDFExtractionError"} THEN 400
         ELSE IF task[p].raised = "IntegrationNotFoundException" THEN 404
         ELSE 500

\* C19: the first step of a delete of an id that has no record ends it with 404
\* and the message "Integration with ID <id> not found.", and changes no record,
\* no turn and no file.
C19_DeleteOfMissingId ==
  [][ \A p \in Procs :
        ( /\ task[p].op = "delete_integration" /\ task[p].pc = "lookup"
          /\ task'[p] # task[p]
          /\ task[p].integration_id \notin DOMAIN integrations )
        => /\ task'[p].pc = "done"
           /\ task'[p].status_code = 404
           /\ task'[p].detail =
                <<"Integration with ID ",
                  <<"0","1","2","3","4","5","6","7","8","9">>[task[p].integration_id + 1],
                  " not found.">>
           /\ IntegrationNotFoundException_message(999) =
                <<"Integration with ID ", "9", "9", "9", " not found.">>
           /\ integrations' = integrations
           /\ conversation_history' = conversation_history
           /\ disk' = disk ]_vars

\* A delete of an id without a record was refused while a record and a file
\* existed.
C19_Witness ==
  \E p \in Procs :
    /\ task[p].op = "delete_integration" /\ Failed(p)
    /\ task[p].status_code = 404
    /\ task[p].integration_id = 2
    /\ task[p].detail = <<"Integration with ID ", "2", " not found.">>
    /\ DOMAIN integrations # {} /\ DOMAIN disk # {}

\* The lines of the first n turns of a history, as the claim words them.
RECURSIVE PriorTurns(_, _)
PriorTurns(history, n) ==
  IF n = 0 THEN <<>>
  ELSE (IF n = 1 THEN <<>> ELSE PriorTurns(history, n - 1) \o <<"\n">>)
       \o <<"U","s","e","r",":"," ">> \o history[n].user_query \o <<"\n">>
       \o <<"A","s","s","i","s","t","a","n","t",":">> \o <<" ">> \o history[n].assistant_response

\* s occurs in t as a run of consecutive characters.
Occurs(s, t) ==
  \E i \in 1 .. Len(t) - Len(s) + 1 : SubSeq(t, i, i + Len(s) - 1) = s

\* The example of the specification.
ExampleQuery ==
  <<"W","h","a","t"," ","i","s"," ","t","h","i","s"," ","a","b","o","u","t","?">>
ExampleContent ==
  <<"H","e","l","l","o"," ","w","o","r","l","d">>
ExamplePrompt ==
  <<"\n","U","s","e","r",":"," ","W","h","a","t"," ","i","s"," ","t","h","i","s"," ","a",
    "b","o","u","t","?","\n","\n","P","D","F"," ","C","o","n","t","e","n","t",":","\n",
    "H","e","l","l","o"," ","w","o","r","l","d","\n","A","s","s","i","s","t","a","n","t",
    ":">>

\* C20: the prompt a chat run composes is the prior turns in the order of the
\* fetched history, each a "User: " line and an "Assistant: " line, then the
\* query as a "User: " line and an empty line, then, unless only_text, the line
\* "PDF Content:" and the document text, and last "Assistant:"; with only_text
\* the document text occurs nowhere in it; and the prompt for no history, the
\* content "Hello world" and the query "What is this about?" is the one of the
\* specification.
C20_PromptLayout ==
  [][ \A p \in Procs :
        ( /\ task[p].op = "generate_response" /\ task[p].pc = "history"
          /\ task'[p] # task[p] )
        => LET t == task'[p]
               head == PriorTurns(t.history, Len(t.history)) \o <<"\n">>
                         \o <<"U","s","e","r",":"," ">> \o t.user_query \o <<"\n", "\n">> IN
           /\ t.history = OfDocument(t.integration_id)
           /\ t.only_text => /\ t.prompt = head \o <<"A","s","s","i","s","t","a","n","t",":">>
                             /\ ~ Occurs(t.pdf_content, t.prompt)
           /\ ~ t.only_text => t.prompt = head \o <<"P","D","F"," ","C","o","n","t","e","n","t",":">> \o <<"\n">> \o t.pdf_content
                                            \o <<"\n">> \o <<"A","s","s","i","s","t","a","n","t",":">>
           /\ construct_prompt(<<>>, ExampleQuery, ExampleContent, FALSE) = ExamplePrompt ]_vars

\* One run composed a prompt with the document text after a prior turn, another
\* one without the text.
C20_Witness ==
  /\ \E p \in Procs : /\ task[p].op = "generate_response" /\ task[p].prompt # <<>>
                      /\ ~ task[p].only_text /\ Len(task[p].history) = 1
                      /\ Occurs(task[p].pdf_content, task[p].prompt)
  /\ \E p \in Procs : /\ task[p].op = "generate_response" /\ task[p].prompt # <<>>
                      /\ task[p].only_text

\* ================================================================= FileHandler
\* Names of stored files, as save_file generates them.
StoredA == generate_unique_filename(1, ClientName(1, ".pdf"))
StoredB == generate_unique_filename(2, ClientName(2, ".pdf"))
StoredNames == {StoredA, StoredB}

\* f"{original_path}.bak"
bak(name) == [name EXCEPT !.ext = @ \o ".bak"]

\* os.rename(src, dst) where src exists: dst is replaced if it exists.
rename(d, src, dst) == write_file(remove(d, src), dst, d[src])

\* A variant that copies the live file and leaves it in place.
backup_file_by_copy(d, filename) ==
  IF ~ exists(d, filename)
  THEN [disk |-> d, returned |-> bak(filename)]
  ELSE [disk |-> write_file(d, bak(filename), d[filename]), returned |-> bak(filename)]

\* FileHandler.backup_file: the directory after the call, and the path returned.
backup_file(d, filename) ==
  IF ~ exists(d, filename)
  THEN [disk |-> d, returned |-> bak(filename)]
  ELSE [disk |-> rename(d, filename, bak(filename)), returned |-> bak(filename)]

\* A variant that leaves a file that occupies the name alone.
restore_backup_unless_occupied(d, backup_path, original_filename) ==
  IF ~ exists(d, backup_path) \/ exists(d, original_filename) THEN d
  ELSE rename(d, backup_path, original_filename)

\* FileHandler.restore_backup: the directory after the call.
restore_backup(d, backup_path, original_filename) ==
  IF ~ exists(d, backup_path) THEN d
  ELSE rename(IF exists(d, original_filename) THEN remove(d, original_filename) ELSE d,
              backup_path, original_filename)

\* FileHandler.delete_file: the directory after the call.
delete_file(d, filename) == IF exists(d, filename) THEN remove(d, filename) ELSE d

\* The upload directories the FileHandler may be given: any files under the
\* stored names and under the backup path of the first.
FileContents == {Bytes(UpHello), Bytes(UpTwoPages)}
Directories ==
  UNION {[S -> FileContents] : S \in SUBSET (StoredNames \cup {bak(StoredA)})}

InitFiles ==
  /\ ai = NoCall /\ fn = NoApplication /\ fh = NoFileCall
  /\ disk \in Directories
  /\ integrations = << >> /\ conversation_history = << >>
  /\ uuids = 0 /\ now = 0
  /\ task = [p \in Procs |-> NoTask]

FhBackup ==
  \E filename \in StoredNames :
    LET out == backup_file(disk, filename) IN
    /\ disk' = out.disk
    /\ fh' = [op |-> "backup_file", filename |-> filename, backup_path |-> NoName,
              returned |-> out.returned, before |-> disk, follows_backup |-> FALSE]

\* restore_backup is called with a path that backup_file returns and a stored
\* name; follows_backup tells that the call before it was the backup_file that
\* returned this path for this name.
FhRestore ==
  \E name \in StoredNames, original_filename \in StoredNames :
    /\ disk' = restore_backup(disk, bak(name), original_filename)
    /\ fh' = [op |-> "restore_backup", filename |-> original_filename,
              backup_path |-> bak(name), returned |-> NoName,
              before |-> IF fh.op = "backup_file" THEN fh.before ELSE disk,
              follows_backup |-> /\ fh.op = "backup_file"
                                 /\ fh.filename = original_filename
                                 /\ fh.returned = bak(name)]

FhDelete ==
  \E filename \in StoredNames :
    /\ disk' = delete_file(disk, filename)
    /\ fh' = [op |-> "delete_file", filename |-> filename, backup_path |-> NoName,
              returned |-> NoName, before |-> disk, follows_backup |-> FALSE]

NextFiles ==
  /\ UNCHANGED <<integrations, conversation_history, uuids, now, task, ai, fn>>
  /\ (FhBackup \/ FhRestore \/ FhDelete)

SpecFiles == InitFiles /\ [][NextFiles]_vars

\* The step is a call of the FileHandler method op.
FhCalls(op) == fh'.op = op /\ <<disk, fh>>' # <<disk, fh>>

\* The files under names other than those of S are the same before and after.
SameOutside(S) ==
  /\ DOMAIN disk' \ S = DOMAIN disk \ S
  /\ \A n \in DOMAIN disk \ S : disk'[n] = disk[n]

C29_BackupThenRestore ==
  (fh.op = "restore_backup" /\ fh.follows_backup) => disk = fh.before

\* ============================================================== text functions
\* The sequences over S of length at most n.
SeqsUpTo(S, n) == UNION {[1 .. k -> S] : k \in 0 .. n}

\* What extract_text() gives for a page: nothing, a word, a blank, two words.
PageTexts == {<<>>, <<"a">>, <<" ">>, <<"b", " ", "c">>}
MaxPages == 3

\* The characters of an extracted text: a letter, a blank, a newline, a symbol.
TextChars == {"a", " ", "\n", "#"}
MaxLen == 5

\* _sync_extract_text is applied to the pages of some PDF.
ApplyExtract ==
  /\ fn.op = ""
  /\ \E pages \in SeqsUpTo(PageTexts, MaxPages) :
    fn' = [NoApplication EXCEPT !.op = "sync_extract_text", !.pages = pages,
                                !.result = sync_extract_text(pages)]

\* _preprocess_text is applied to some extracted text.
ApplyPreprocess ==
  /\ fn.op = ""
  /\ \E text \in SeqsUpTo(TextChars, MaxLen) :
    fn' = [NoApplication EXCEPT !.op = "preprocess_text", !.text = text,
                                !.result = preprocess_text(text)]

\* _preprocess_text is applied to its own result.
ApplyPreprocessAgain ==
  /\ fn.op = "preprocess_text"
  /\ fn' = [fn EXCEPT !.op = "preprocess_text again", !.again = preprocess_text(fn.result)]

NextText ==
  /\ UNCHANGED <<disk, integrations, conversation_history, uuids, now, task, ai, fh>>
  /\ (ApplyExtract \/ ApplyPreprocess \/ ApplyPreprocessAgain)

SpecText == Init /\ [][NextText]_vars

\* The texts of the first n pages that are not empty, with a blank between them.
RECURSIVE TextsOfPages(_, _)
TextsOfPages(pages, n) ==
  IF n = 0 THEN <<>>
  ELSE LET before == TextsOfPages(pages, n - 1) IN
       IF pages[n] = <<>> THEN before
       ELSE IF \A i \in 1 .. n - 1 : pages[i] = <<>> THEN pages[n]
       ELSE before \o <<" ">> \o pages[n]

Blank(s) == \A i \in 1 .. Len(s) : s[i] \in {" ", "\t", "\n"}

\* C23: _sync_extract_text fails exactly when the texts of the pages, joined,
\* are empty after trimming, which includes a PDF of no pages; otherwise it
\* returns the texts of the pages that gave text, in page order with one blank
\* between them, and the number of all pages.
C23_ExtractionJoinsPages ==
  fn.op = "sync_extract_text"
  => LET joined == TextsOfPages(fn.pages, Len(fn.pages)) IN
     /\ fn.result.ok <=> ~ Blank(joined)
     /\ fn.pages = <<>> => ~ fn.result.ok
     /\ fn.result.ok => /\ fn.result.content = joined
                        /\ fn.result.page_count = Len(fn.pages)

\* Three pages, the second without text: "a b c" and a page count of 3.
C23_Witness ==
  /\ fn.op = "sync_extract_text"
  /\ fn.pages = << <<"a">>, <<>>, <<"b", " ", "c">> >>
  /\ fn.result.ok
  /\ fn.result.content = <<"a", " ", "b", " ", "c">>
  /\ fn.result.page_count = 3

\* C28 (as claimed): a normalized text has no two whitespace characters in a row
\* and no character outside [A-Za-z0-9,.?! ], and normalizing it again returns
\* it unchanged.
C28_NormalizationIdempotent ==
  fn.op = "preprocess_text again"
  => /\ fn.again = fn.result
     /\ \A i \in 1 .. Len(fn.result) :
          /\ fn.result[i] \in Letters \cup Digits \cup {",", ".", "?", "!", " "}
          /\ i > 1 => ~ (fn.result[i - 1] = " " /\ fn.result[i] = " ")

\* C27 (as claimed): a call of generate_response that has ended has returned the
\* text of a model attempt or raised AIModelError, RateLimitExceededError or
\* TimeoutError, whatever number of attempts is configured.
C27_ReturnsTextOrRaises ==
  ai.pc = "done"
  => \/ ai.returned /\ ai.text # <<>> /\ ai.raised = ""
     \/ ~ ai.returned
        /\ ai.raised \in {"AIModelError", "RateLimitExceededError", "TimeoutError"}

\* C25 (as claimed): every stored turn refers to a record that exists.
C25_TurnsReferToRecords ==
  \A row \in Rows(conversation_history) : row.integration_id \in DOMAIN integrations

\* C26: the first step of a delete of an existing document looks the record up
\* and removes the file the record names, without an error when there is no such
\* file, and leaves the record in place; its second step deletes the record and
\* commits, the files being left as they are, and ends the delete with success.
C26_DeleteOrder ==
  [][ \A p \in Procs :
        (task[p].op = "delete_integration" /\ task'[p] # task[p])
        => /\ ( /\ task[p].pc = "lookup"
                /\ task[p].integration_id \in DOMAIN integrations )
              => LET record == integrations[task[p].integration_id] IN
                 /\ task'[p].pc = "commit" /\ task'[p].raised = ""
                 /\ task'[p].record = record
                 /\ ~ exists(disk', record.filename)
                 /\ SameOutside({record.filename})
                 /\ integrations' = integrations
           /\ task[p].pc = "commit"
              => /\ task'[p].pc = "done" /\ task'[p].status_code = 200
                 /\ task[p].record.id \notin DOMAIN integrations'
                 /\ \A id \in DOMAIN integrations \ {task[p].record.id} :
                      id \in DOMAIN integrations' /\ integrations'[id] = integrations[id]
                 /\ disk' = disk ]_vars

\* A delete has succeeded for a record that named no file, other files being
\* in the upload directory.
C26_Witness ==
  \E p \in Procs :
    /\ task[p].op = "delete_integration" /\ Succeeded(p)
    /\ task[p].record # NoRecord
    /\ task[p].record.id \notin DOMAIN integrations
    /\ ~ exists(disk, task[p].record.filename)
    /\ DOMAIN disk # {}

\* C30 (as claimed): the processing_status in the response to a successful
\* upload or replace is the processing_status of the record it created or updated.
C30_ResponseStatusIsStored ==
  \A p \in Procs :
    (task[p].op \in {"process_integration", "update_pdf"} /\ Succeeded(p))
    => upload_route_response(task[p]).processing_status = task[p].record.processing_status

\* Two replace calls of one document.
ReplacesOfOneDocument(p, q) ==
  /\ p # q
  /\ task[p].op = "update_pdf" /\ task[q].op = "update_pdf"
  /\ task[p].integration_id = task[q].integration_id

\* C24: replace calls of one document are not mutually excluded.  While one
\* call is between its lookup and its commit, the lookup and file removal of
\* another call with a valid file for the same existing document can take place
\* and brings that call to the point of storing its file; and when both calls
\* have succeeded, the directory holds the files both stored while the record
\* names neither of them.
C24_ReplacesNotExcluded ==
  \A p, q \in Procs :
    ReplacesOfOneDocument(p, q)
    => /\ ( /\ task[p].pc \in {"store", "extract", "commit"}
            /\ task[q].pc = "lookup"
            /\ validate_file(task[q].file)
            /\ task[q].integration_id \in DOMAIN integrations )
          => ENABLED (UpdateLookup(q) /\ task'[q].pc = "store")
       /\ (Succeeded(p) /\ Succeeded(q))
          => /\ task[p].file_path # task[q].file_path
             /\ exists(disk, task[p].file_path) /\ exists(disk, task[q].file_path)
             /\ \A id \in DOMAIN integrations :
                  integrations[id].filename \notin {task[p].file_path, task[q].file_path}

\* Two replace calls of one document have both done their lookup and file
\* removal and neither has stored its new file.
C24_Witness ==
  \E p, q \in Procs :
    /\ ReplacesOfOneDocument(p, q)
    /\ task[p].pc = "store" /\ task[q].pc = "store"
    /\ task[p].record # NoRecord /\ task[q].record = task[p].record
    /\ ~ exists(disk, task[p].record.filename)
====
